---------------------------- MODULE Spec2Model ----------------------------
(***************************************************************************)
(* Verification model of the tracking and event-detection core of          *)
(* football-coach-intelligence:                                            *)
(*   backend/utils/tracker.py  ObjectTracker, BallTracker                  *)
(*   backend/utils/zones.py    PitchZoneMapper                             *)
(*                                                                         *)
(* The OpenCV tracker objects held in self.trackers are opaque: what the   *)
(* model keeps of them is the outcome of each init/update call, which is   *)
(* drawn nondeterministically at every call.                               *)
(***************************************************************************)
EXTENDS Integers, Sequences, FiniteSets, TLC

VARIABLES
    trackers,       \* ObjectTracker.trackers: id -> [class_id, confidence]
    disappeared,    \* ObjectTracker.disappeared: id -> consecutive misses
    next_id,        \* ObjectTracker.next_id
    ball_history,   \* BallTracker.ball_history (empty for a plain ObjectTracker)
    returned,       \* value returned by the last update() call
    call,           \* the last call made on the instance, with its inputs
    assigned,       \* ids given to a track since the instance was constructed
    assigned_since_reset, \* ids given to a track since construction or the last reset()
    streak,         \* per track looped over by the last update(): backend update failures in a row
    frame,          \* frames the caller has stamped on ball objects so far
    hist_calls,     \* number of update_ball_history calls made in this run
    zone_sequence,  \* argument handed to detect_fast_break
    fast_break,     \* value returned by detect_fast_break (FALSE before it is called)
    recorded,       \* every entry update_ball_history has appended, oldest first
    args,           \* arguments of the stateless query being made (zones, events)
    result,         \* what the last stateless query or pipeline frame returned or raised
    possessor       \* EventPipeline: <<>> or <<id>> of the player in possession

vars == <<trackers, disappeared, next_id, ball_history, returned, call, assigned, assigned_since_reset, streak, frame, hist_calls, zone_sequence, fast_break, recorded, args, result, possessor>>

---------------------------------------------------------------------------
(* Bounds of the model *)

\* detections per frame
MaxDets == 2

\* ids a run may hand out before it must reset
MaxNextId == 2

\* update_ball_history calls per run
MaxHistCalls == 3

\* longest zone sequence classified
MaxSeqLen == 6

\* largest zone id used in classified sequences
MaxZoneVal == 7

\* the small pitches are 12k x 6k pixels, k up to
MaxPitchScale == 1

\* largest zone id handed to a geometry query
MaxZoneArg == 20

\* tracked objects handed to an event detector
MaxObjs == 4

---------------------------------------------------------------------------
(* Program constants *)

max_disappeared == 30

max_history == 30

---------------------------------------------------------------------------
(* Data *)

None == "None"

\* Detection dictionaries handed to update(): bbox, class_id (0 player,
\* 1 ball) and confidence (in hundredths).
Detections == { [bbox |-> <<10, 10, 4, 8>>, class_id |-> 0, confidence |-> 90], [bbox |-> <<50, 40, 2, 2>>, class_id |-> 1, confidence |-> 60] }

SeqsUpTo(S, n) == UNION { [1..k -> S] : k \in 0..n }

DetLists == SeqsUpTo(Detections, MaxDets)

\* The bbox a backend reports on a successful update.
BackendBox == <<12, 10, 4, 8>>

\* center = (x + w/2, y + h/2); the boxes of the model have even w and h.
Center(bbox) == <<bbox[1] + bbox[3] \div 2, bbox[2] + bbox[4] \div 2>>

TrackedObject(id, bbox, class_id, confidence) == [id |-> id, bbox |-> bbox, class_id |-> class_id, confidence |-> confidence, frame_id |-> 0, center |-> Center(bbox), velocity |-> None]

EmptyDict == [k \in {} |-> 0]

\* No stateless query has been made.
NoArgs == <<>>

NoResult == [raised |-> None, value |-> None]

NoQuery == args = NoArgs /\ result = NoResult

\* What a query hands back: a value, or the exception it raised.
Returned(v) == [raised |-> None, value |-> v]

Raised(e) == [raised |-> e, value |-> None]

DictSet(d, k, v) == [x \in DOMAIN d \cup {k} |-> IF x = k THEN v ELSE d[x]]

DictDel(d, k) == [x \in DOMAIN d \ {k} |-> d[x]]

\* The state of one ObjectTracker during a call, with the list being built.
State(t, d, n, objs) == [trackers |-> t, disappeared |-> d, next_id |-> n, tracked_objects |-> objs]

---------------------------------------------------------------------------
(* ObjectTracker.update *)

\* Mutant: the id counter advances for a detection whose init failed too.
BootstrapOneSkipsId(st, det, ok) ==
    IF ok
    THEN State(DictSet(st.trackers, st.next_id, [class_id |-> det.class_id, confidence |-> det.confidence]), DictSet(st.disappeared, st.next_id, 0), st.next_id + 1, st.tracked_objects)
    ELSE State(st.trackers, st.disappeared, st.next_id + 1, st.tracked_objects)

\* Mutant: the id counter is not advanced after a track is created.
BootstrapOneSameId(st, det, ok) ==
    IF ok
    THEN State(DictSet(st.trackers, st.next_id, [class_id |-> det.class_id, confidence |-> det.confidence]), DictSet(st.disappeared, st.next_id, 0), st.next_id, st.tracked_objects)
    ELSE st

\* One iteration of the bootstrap loop: detection det, whose backend init
\* returned ok.
BootstrapOne(st, det, ok) ==
    IF ok
    THEN State(DictSet(st.trackers, st.next_id, [class_id |-> det.class_id, confidence |-> det.confidence]), DictSet(st.disappeared, st.next_id, 0), st.next_id + 1, st.tracked_objects)
    ELSE st

RECURSIVE BootstrapFrom(_, _, _, _)
BootstrapFrom(st, dets, initOK, i) ==
    IF i > Len(dets) THEN st
    ELSE BootstrapFrom(BootstrapOne(st, dets[i], initOK[i]), dets, initOK, i + 1)

\* Mutant: tracks are created from the detections of every frame.
NeedsBootstrapAlways(st) == TRUE

\* Mutant: tracks are created whenever fewer than two are held.
NeedsBootstrapTopUp(st) == Cardinality(DOMAIN st.trackers) < 2

\* "if not self.trackers": the table decides, the detections do not.
NeedsBootstrap(st) == DOMAIN st.trackers = {}

Bootstrap(st, dets, initOK) ==
    IF NeedsBootstrap(st) THEN BootstrapFrom(st, dets, initOK, 1) ELSE st

\* Mutant: the comparison with the limit is not strict.
ExpiredAtLimit(count) == count >= max_disappeared

\* Mutant: a track is dropped one miss later.
ExpiredLate(count) == count > max_disappeared + 1

\* "if self.disappeared[object_id] > self.max_disappeared"
Expired(count) == count > max_disappeared

\* Mutant: a miss is counted twice.
MissCountTwice(count) == count + 2

\* The value written to disappeared[object_id] on a failed backend update.
MissCount(count) == count + 1

\* Mutant: a successful update leaves the counter as it was.
HitCountStale(count) == count

\* The value written to disappeared[object_id] on a successful backend update.
HitCount(count) == 0

\* Mutant: a track that was missed and is kept is returned all the same.
UpdateOneReturnsStale(st, id, ok) ==
    IF ok
    THEN State(st.trackers, [st.disappeared EXCEPT ![id] = HitCount(@)], st.next_id, Append(st.tracked_objects, TrackedObject(id, BackendBox, st.trackers[id].class_id, st.trackers[id].confidence)))
    ELSE LET n == MissCount(st.disappeared[id])
         IN  IF Expired(n)
             THEN State(DictDel(st.trackers, id), DictDel(st.disappeared, id), st.next_id, st.tracked_objects)
             ELSE State(st.trackers, [st.disappeared EXCEPT ![id] = n], st.next_id, Append(st.tracked_objects, TrackedObject(id, BackendBox, st.trackers[id].class_id, st.trackers[id].confidence)))

\* One iteration of the update loop on track id, whose backend update
\* returned (ok, BackendBox).
UpdateOne(st, id, ok) ==
    IF ok
    THEN State(st.trackers, [st.disappeared EXCEPT ![id] = HitCount(@)], st.next_id, Append(st.tracked_objects, TrackedObject(id, BackendBox, st.trackers[id].class_id, st.trackers[id].confidence)))
    ELSE LET n == MissCount(st.disappeared[id])
         IN  IF Expired(n)
             THEN State(DictDel(st.trackers, id), DictDel(st.disappeared, id), st.next_id, st.tracked_objects)
             ELSE State(st.trackers, [st.disappeared EXCEPT ![id] = n], st.next_id, st.tracked_objects)

\* list(self.trackers.items()): dict insertion order.  Ids are inserted in
\* increasing order and the table is emptied whenever next_id restarts, so
\* insertion order is ascending id order.
RECURSIVE ItemsOrder(_)
ItemsOrder(ids) ==
    IF ids = {} THEN <<>>
    ELSE LET m == CHOOSE x \in ids : \A y \in ids : x <= y
         IN  <<m>> \o ItemsOrder(ids \ {m})

RECURSIVE UpdateLoop(_, _, _, _)
UpdateLoop(st, items, updOK, i) ==
    IF i > Len(items) THEN st
    ELSE UpdateLoop(UpdateOne(st, items[i], updOK[items[i]]), items, updOK, i + 1)

\* update(frame, detections) with the backend outcomes initOK (one per
\* detection when the table is empty) and updOK (one per track looped over).
update(st, dets, initOK, updOK) ==
    LET s1 == Bootstrap(State(st.trackers, st.disappeared, st.next_id, <<>>), dets, initOK)
    IN  UpdateLoop(s1, ItemsOrder(DOMAIN s1.trackers), updOK, 1)

Self == State(trackers, disappeared, next_id, <<>>)

\* One update() call whose detections are drawn from D.
UpdateWith(D) ==
    \E dets \in D :
      \E initOK \in (IF NeedsBootstrap(Self) THEN [1..Len(dets) -> BOOLEAN] ELSE {<<>>}) :
        \E s1 \in {Bootstrap(Self, dets, initOK)} :
          /\ s1.next_id <= MaxNextId
          /\ \E updOK \in [DOMAIN s1.trackers -> BOOLEAN] :
               \E s2 \in {update(Self, dets, initOK, updOK)} :
                 /\ trackers' = s2.trackers
                 /\ disappeared' = s2.disappeared
                 /\ next_id' = s2.next_id
                 /\ returned' = s2.tracked_objects
                 /\ call' = [op |-> "update", boot |-> NeedsBootstrap(Self), dets |-> dets, initOK |-> initOK, updOK |-> updOK, recovered |-> {id \in DOMAIN trackers : disappeared[id] >= 1 /\ updOK[id]}]
                 /\ assigned' = assigned \cup (DOMAIN s1.trackers \ DOMAIN trackers)
                 /\ assigned_since_reset' = assigned_since_reset \cup (DOMAIN s1.trackers \ DOMAIN trackers)
                 /\ streak' = [id \in DOMAIN s1.trackers |-> IF updOK[id] THEN 0 ELSE (IF id \in DOMAIN trackers THEN streak[id] ELSE 0) + 1]
                 /\ UNCHANGED <<ball_history, frame, hist_calls, zone_sequence, fast_break, recorded, args, result, possessor>>

\* A frame of the job.  The detections of a frame are read only by the
\* bootstrap branch, so a call on a non-empty table is explored with the empty
\* list; UpdateAnyDets below explores it with every list.
Update == UpdateWith(IF NeedsBootstrap(Self) THEN DetLists ELSE {<<>>})

\* The same call with every detection list, whatever the table holds.
UpdateAnyDets == UpdateWith(DetLists)

---------------------------------------------------------------------------
(* ObjectTracker.reset *)

reset(st) == State(EmptyDict, EmptyDict, 0, <<>>)

NoCall(op) == [op |-> op, boot |-> FALSE, dets |-> <<>>, initOK |-> <<>>, updOK |-> EmptyDict, recovered |-> {}]

Reset ==
    LET s == reset(Self)
    IN  /\ trackers' = s.trackers
        /\ disappeared' = s.disappeared
        /\ next_id' = s.next_id
        /\ call' = NoCall("reset")
        /\ assigned_since_reset' = {}
        /\ streak' = EmptyDict
        /\ UNCHANGED <<ball_history, returned, assigned, frame, hist_calls, zone_sequence, fast_break, recorded, args, result, possessor>>

---------------------------------------------------------------------------
(* ObjectTracker.__init__ and the tracker specification *)

InitTracker ==
    /\ possessor = <<>>
    /\ trackers = EmptyDict
    /\ disappeared = EmptyDict
    /\ next_id = 0
    /\ returned = <<>>
    /\ assigned = {}
    /\ assigned_since_reset = {}
    /\ streak = EmptyDict

Init ==
    /\ InitTracker
    /\ call = NoCall("__init__")
    /\ ball_history = <<>>
    /\ frame = 0
    /\ hist_calls = 0
    /\ recorded = <<>>
    /\ zone_sequence = <<>>
    /\ fast_break = FALSE
    /\ NoQuery

Next == Update \/ Reset

Spec == Init /\ [][Next]_vars

NextDets == UpdateAnyDets \/ Reset

SpecDets == Init /\ [][NextDets]_vars

---------------------------------------------------------------------------
(* BallTracker: ball_history *)

\* The boxes of the ball objects handed to update_ball_history.
BallBoxes == { <<0, 0, 2, 2>>, <<6, 8, 2, 2>> }

\* A ball TrackedObject of frame f, as the caller stamps it.
BallObject(f, bbox) == [TrackedObject(0, bbox, 1, 60) EXCEPT !.frame_id = f]

\* The entry update_ball_history appends for a ball object.
HistoryEntry(ball) == [frame_id |-> ball.frame_id, position |-> ball.center, bbox |-> ball.bbox]

\* Mutant: at capacity the entry just appended is the one dropped.
KeepRecentDropsNewest(history) == IF Len(history) > max_history THEN SubSeq(history, 1, Len(history) - 1) ELSE history

\* "Keep only recent history": pop(0) once the list is longer than max_history
KeepRecent(history) == IF Len(history) > max_history THEN Tail(history) ELSE history

\* BallTracker.update_ball_history
update_ball_history(history, ball_objects) ==
    IF ball_objects # <<>>
    THEN KeepRecent(Append(history, HistoryEntry(ball_objects[1])))
    ELSE history

\* The ball lists of frame f: no ball, or one or two ball objects.
BallLists(f) == SeqsUpTo({BallObject(f, b) : b \in BallBoxes}, 2)

UpdateBallHistory ==
    /\ hist_calls < MaxHistCalls
    /\ \E balls \in BallLists(frame + 1) :
         /\ ball_history' = update_ball_history(ball_history, balls)
         /\ call' = [NoCall("update_ball_history") EXCEPT !.dets = balls]
         /\ recorded' = IF balls # <<>> THEN Append(recorded, HistoryEntry(balls[1])) ELSE recorded
    /\ frame' = frame + 1
    /\ hist_calls' = hist_calls + 1
    /\ UNCHANGED <<trackers, disappeared, next_id, returned, assigned, assigned_since_reset, streak, zone_sequence, fast_break, args, result, possessor>>

\* The history after k frames that each showed the first ball box.
FilledHistory(k) == [i \in 1..k |-> HistoryEntry(BallObject(i, <<0, 0, 2, 2>>))]

\* A BallTracker that has been fed k frames, 0 <= k <= max_history, and has
\* never been reset: freshly constructed for k = 0, else just back from the
\* update_ball_history call of frame k.
InitBall ==
    /\ InitTracker
    /\ \E k \in 0..max_history :
         /\ frame = k
         /\ ball_history = FilledHistory(k)
         /\ recorded = FilledHistory(k)
         /\ call = IF k = 0 THEN NoCall("__init__") ELSE [NoCall("update_ball_history") EXCEPT !.dets = <<BallObject(k, <<0, 0, 2, 2>>)>>]
    /\ hist_calls = 0
    /\ zone_sequence = <<>>
    /\ fast_break = FALSE
    /\ NoQuery

\* The frames_ahead asked for: none, one, and the default.
FramesAhead == {0, 1, 5}

\* The velocities between consecutive positions, from index i on.
RECURSIVE VelocitiesFrom(_, _)
VelocitiesFrom(recent_positions, i) ==
    IF i > Len(recent_positions) THEN <<>>
    ELSE <<<<recent_positions[i].position[1] - recent_positions[i - 1].position[1], recent_positions[i].position[2] - recent_positions[i - 1].position[2]>>>> \o VelocitiesFrom(recent_positions, i + 1)

\* sum(v[k] for v in velocities)
RECURSIVE SumComponent(_, _, _)
SumComponent(velocities, k, i) == IF i > Len(velocities) THEN 0 ELSE velocities[i][k] + SumComponent(velocities, k, i + 1)

\* Mutant: only the latest velocity is used.
RecentPositionsLastTwo(history) == SubSeq(history, Len(history) - 1, Len(history))

\* self.ball_history[-3:]
RecentPositions(history) == SubSeq(history, IF Len(history) > 3 THEN Len(history) - 2 ELSE 1, Len(history))

\* BallTracker.predict_ball_position.  The average velocity is a sum divided
\* by the number n of velocities, which need not be whole: each coordinate of
\* the prediction is the fraction <<numerator, n>>,
\*   predicted = last_pos + (sum / n) * frames_ahead
\*             = (n * last_pos + sum * frames_ahead) / n.
predict_ball_position(history, frames_ahead) ==
    IF Len(history) < 3 THEN None
    ELSE LET velocities == VelocitiesFrom(RecentPositions(history), 2)
             last_pos == history[Len(history)].position
         IN  IF velocities = <<>> THEN None
             ELSE <<<<Len(velocities) * last_pos[1] + SumComponent(velocities, 1, 1) * frames_ahead, Len(velocities)>>, <<Len(velocities) * last_pos[2] + SumComponent(velocities, 2, 1) * frames_ahead, Len(velocities)>>>>

PredictBallPosition ==
    /\ call.op # "predict_ball_position"
    /\ \E frames_ahead \in FramesAhead :
         /\ args' = [frames_ahead |-> frames_ahead]
         /\ result' = Returned(predict_ball_position(ball_history, frames_ahead))
    /\ call' = NoCall("predict_ball_position")
    /\ UNCHANGED <<trackers, disappeared, next_id, ball_history, returned, assigned, assigned_since_reset, streak, frame, hist_calls, zone_sequence, fast_break, recorded, possessor>>

NextBall == UpdateBallHistory \/ Reset \/ PredictBallPosition

SpecBall == InitBall /\ [][NextBall]_vars

---------------------------------------------------------------------------
(* PitchZoneMapper: fast-break classification *)

min_passes == 3

min_zone_sum == 9

max_passes == 5

max_zone_sum == 12

RECURSIVE SumFrom(_, _)
SumFrom(zones, i) == IF i > Len(zones) THEN 0 ELSE zones[i] + SumFrom(zones, i + 1)

\* Mutant: the first zone is left out of the sum.
calculate_zone_sum_skipping_first(zones) == SumFrom(zones, 2)

\* PitchZoneMapper.calculate_zone_sum
calculate_zone_sum(zones) == SumFrom(zones, 1)

\* Mutant: the first rule's sum comparison is not strict.
RuleOneAtLeast(n, zone_sum) == n >= min_passes /\ zone_sum >= min_zone_sum

\* "Rule 1": len(zone_sequence) >= min_passes and zone_sum > min_zone_sum
RuleOne(n, zone_sum) == n >= min_passes /\ zone_sum > min_zone_sum

\* "Rule 2": min_passes < len(zone_sequence) <= max_passes and zone_sum > max_zone_sum
RuleTwo(n, zone_sum) == min_passes < n /\ n <= max_passes /\ zone_sum > max_zone_sum

\* Mutant: for 4-5 passes the second rule decides alone.
detect_fast_break_second_rule_alone(seq) ==
    IF Len(seq) < min_passes THEN FALSE
    ELSE IF min_passes < Len(seq) /\ Len(seq) <= max_passes THEN RuleTwo(Len(seq), calculate_zone_sum(seq))
    ELSE RuleOne(Len(seq), calculate_zone_sum(seq))

\* PitchZoneMapper.detect_fast_break with the default thresholds
detect_fast_break(seq) ==
    IF Len(seq) < min_passes THEN FALSE
    ELSE IF RuleOne(Len(seq), calculate_zone_sum(seq)) THEN TRUE
    ELSE IF RuleTwo(Len(seq), calculate_zone_sum(seq)) THEN TRUE
    ELSE FALSE

DetectFastBreak ==
    /\ call.op # "detect_fast_break"
    /\ fast_break' = detect_fast_break(zone_sequence)
    /\ call' = NoCall("detect_fast_break")
    /\ UNCHANGED <<trackers, disappeared, next_id, ball_history, returned, assigned, assigned_since_reset, streak, frame, hist_calls, zone_sequence, recorded, args, result, possessor>>

InitFB ==
    /\ InitTracker
    /\ call = NoCall("__init__")
    /\ ball_history = <<>>
    /\ frame = 0
    /\ hist_calls = 0
    /\ recorded = <<>>
    /\ \E n \in 0..MaxSeqLen : zone_sequence \in [1..n -> 1..MaxZoneVal]
    /\ fast_break = FALSE
    /\ NoQuery

NextFB == DetectFastBreak

SpecFB == InitFB /\ [][NextFB]_vars

---------------------------------------------------------------------------
(* PitchZoneMapper: geometry *)

zones_per_row == 6

zones_per_col == 3

\* The pitches of the model: the default 1920 x 1080 and small ones.  Every
\* width is a multiple of 12 and every height a multiple of 6, so that
\* zone_width, zone_height and the zone centres are whole numbers and the
\* integer arithmetic below is the float arithmetic of the source.
DefaultPitch == [pitch_width |-> 1920, pitch_height |-> 1080]

Pitches == {DefaultPitch} \cup {[pitch_width |-> 12 * k, pitch_height |-> 6 * k] : k \in 1..MaxPitchScale}

\* self.zone_width = pitch_width / self.zones_per_row
zone_width(pitch) == pitch.pitch_width \div zones_per_row

\* self.zone_height = pitch_height / self.zones_per_col
zone_height(pitch) == pitch.pitch_height \div zones_per_col

\* Mutant: x2 and y2 stop one pixel short, as for half-open cells.
ZoneBoxHalfOpen(pitch, row, col) == <<col * zone_width(pitch), row * zone_height(pitch), (col + 1) * zone_width(pitch) - 1, (row + 1) * zone_height(pitch) - 1>>

\* (x1, y1, x2, y2) of the cell at (row, col)
ZoneBox(pitch, row, col) == <<col * zone_width(pitch), row * zone_height(pitch), (col + 1) * zone_width(pitch), (row + 1) * zone_height(pitch)>>

\* The two nested loops of _create_zone_map, numbering the cells as they go.
RECURSIVE ZoneMapFrom(_, _, _, _, _)
ZoneMapFrom(pitch, row, col, zone_number, zone_map) ==
    IF row >= zones_per_col THEN zone_map
    ELSE IF col >= zones_per_row THEN ZoneMapFrom(pitch, row + 1, 0, zone_number, zone_map)
    ELSE ZoneMapFrom(pitch, row, col + 1, zone_number + 1, DictSet(zone_map, zone_number, ZoneBox(pitch, row, col)))

\* PitchZoneMapper._create_zone_map
create_zone_map(pitch) == ZoneMapFrom(pitch, 0, 0, 1, EmptyDict)

\* Mutant: the index is not clamped.
ClampOff(v, last) == v

\* min(col, self.zones_per_row - 1), min(row, self.zones_per_col - 1)
Clamp(v, last) == IF v < last THEN v ELSE last

\* Mutant: the right and bottom edges of the pitch count as outside.
pixel_to_zone_edges_outside(pitch, x, y) ==
    IF ~(0 <= x /\ x < pitch.pitch_width /\ 0 <= y /\ y < pitch.pitch_height) THEN 0
    ELSE (y \div zone_height(pitch)) * zones_per_row + x \div zone_width(pitch) + 1

\* PitchZoneMapper.pixel_to_zone
pixel_to_zone(pitch, x, y) ==
    IF ~(0 <= x /\ x <= pitch.pitch_width /\ 0 <= y /\ y <= pitch.pitch_height) THEN 0
    ELSE LET col == Clamp(x \div zone_width(pitch), zones_per_row - 1)
             row == Clamp(y \div zone_height(pitch), zones_per_col - 1)
         IN  row * zones_per_row + col + 1

\* PitchZoneMapper.zone_to_pixel_center
zone_to_pixel_center(pitch, zone_number) ==
    LET zone_map == create_zone_map(pitch)
    IN  IF zone_number \notin DOMAIN zone_map THEN Raised("ValueError")
        ELSE Returned(<<(zone_map[zone_number][1] + zone_map[zone_number][3]) \div 2, (zone_map[zone_number][2] + zone_map[zone_number][4]) \div 2>>)

\* Mutant: an id outside the map is clamped to the nearest zone.
get_zone_boundaries_clamping(pitch, zone_number) == Returned(create_zone_map(pitch)[IF zone_number < 1 THEN 1 ELSE Clamp(zone_number, 18)])

\* PitchZoneMapper.get_zone_boundaries
get_zone_boundaries(pitch, zone_number) ==
    LET zone_map == create_zone_map(pitch)
    IN  IF zone_number \notin DOMAIN zone_map THEN Raised("ValueError")
        ELSE Returned(zone_map[zone_number])

\* Mutant: a pass that stays in its row counts as forward.
is_forward_pass_or_level(zone1, zone2) ==
    IF ~(1 <= zone1 /\ zone1 <= 18 /\ 1 <= zone2 /\ zone2 <= 18) THEN Returned(FALSE)
    ELSE Returned((zone2 - 1) \div zones_per_row <= (zone1 - 1) \div zones_per_row)

\* PitchZoneMapper.is_forward_pass
is_forward_pass(zone1, zone2) ==
    IF ~(1 <= zone1 /\ zone1 <= 18 /\ 1 <= zone2 /\ zone2 <= 18) THEN Returned(FALSE)
    ELSE Returned((zone2 - 1) \div zones_per_row < (zone1 - 1) \div zones_per_row)

\* The points asked about: every whole point of a small pitch and of the
\* one-pixel ring around it; on the default pitch the corners, the cell
\* borders, the ring and a few inner points.
SampleXs == {-1, 0, 100, 319, 320, 1900, 1919, 1920, 1921}

SampleYs == {-1, 0, 100, 359, 360, 700, 719, 720, 1079, 1080, 1081}

Xs(pitch) == IF pitch = DefaultPitch THEN SampleXs ELSE -1..(pitch.pitch_width + 1)

Ys(pitch) == IF pitch = DefaultPitch THEN SampleYs ELSE -1..(pitch.pitch_height + 1)

\* The zone ids asked about: valid ones and ids on both sides of [1, 18].
ZoneArgs == -1..MaxZoneArg

ZoneQuery(query, pitch, x, y, zone_number, zone1, zone2) == [query |-> query, pitch |-> pitch, x |-> x, y |-> y, zone_number |-> zone_number, zone1 |-> zone1, zone2 |-> zone2]

tracker_vars == <<trackers, disappeared, next_id, ball_history, returned, assigned, assigned_since_reset, streak, frame, hist_calls, zone_sequence, fast_break, recorded, possessor>>

PixelToZone ==
    /\ call.op = "__init__"
    /\ args.query = "point"
    /\ result' = Returned(pixel_to_zone(args.pitch, args.x, args.y))
    /\ call' = NoCall("pixel_to_zone")
    /\ UNCHANGED <<tracker_vars, args>>

\* get_zone_boundaries on a drawn id, or on the zone pixel_to_zone has just
\* returned for the point of the query.
GetZoneBoundaries ==
    /\ \/ call.op = "__init__" /\ args.query = "zone" /\ args' = args
       \/ call.op = "pixel_to_zone" /\ args' = [args EXCEPT !.zone_number = result.value]
    /\ result' = get_zone_boundaries(args.pitch, args'.zone_number)
    /\ call' = NoCall("get_zone_boundaries")
    /\ UNCHANGED tracker_vars

ZoneToPixelCenter ==
    /\ call.op = "__init__"
    /\ args.query = "zone"
    /\ result' = zone_to_pixel_center(args.pitch, args.zone_number)
    /\ call' = NoCall("zone_to_pixel_center")
    /\ UNCHANGED <<tracker_vars, args>>

IsForwardPass ==
    /\ call.op = "__init__"
    /\ args.query = "pair"
    /\ result' = is_forward_pass(args.zone1, args.zone2)
    /\ call' = NoCall("is_forward_pass")
    /\ UNCHANGED <<tracker_vars, args>>

\* A freshly constructed instance that has been fed nothing.
InitIdle ==
    /\ InitTracker
    /\ call = NoCall("__init__")
    /\ ball_history = <<>>
    /\ frame = 0
    /\ hist_calls = 0
    /\ recorded = <<>>
    /\ zone_sequence = <<>>
    /\ fast_break = FALSE

InitZone ==
    /\ InitIdle
    /\ result = NoResult
    /\ \/ \E pitch \in Pitches : \E x \in Xs(pitch), y \in Ys(pitch) : args = ZoneQuery("point", pitch, x, y, 0, 0, 0)
       \/ \E pitch \in Pitches, z \in ZoneArgs : args = ZoneQuery("zone", pitch, 0, 0, z, 0, 0)
       \/ \E a \in ZoneArgs, b \in ZoneArgs : args = ZoneQuery("pair", DefaultPitch, 0, 0, 0, a, b)

NextZone == PixelToZone \/ GetZoneBoundaries \/ ZoneToPixelCenter \/ IsForwardPass

SpecZone == InitZone /\ [][NextZone]_vars

---------------------------------------------------------------------------
(* ObjectTracker.detect_ball_transfer, calculate_velocity and                *)
(* BallTracker.detect_ball_kick                                              *)

\* A TrackedObject as update() builds it, with its center at the given point.
ObjAt(id, class_id, center) == TrackedObject(id, <<center[1] - 1, center[2] - 1, 2, 2>>, class_id, IF class_id = 1 THEN 60 ELSE 90)

\* [obj for obj in tracked_objects if obj.class_id == c]
OfClass(tracked_objects, c) == SelectSeq(tracked_objects, LAMBDA obj : obj.class_id = c)

\* The square of _calculate_distance.  The distances of the source are only
\* compared, with each other and with a non-negative threshold, and the square
\* root is strictly increasing, so the model compares the squares.
distance_sq(point1, point2) == (point1[1] - point2[1]) * (point1[1] - point2[1]) + (point1[2] - point2[2]) * (point1[2] - point2[2])

\* float('inf'), as a squared distance
Inf == -1

\* distance < min_distance
Closer(d_sq, min_sq) == min_sq = Inf \/ d_sq < min_sq

\* The loop over the players: closest is <<>> for None, else <<player>>.
RECURSIVE ClosestFrom(_, _, _, _)
ClosestFrom(ball, players, i, best) ==
    IF i > Len(players) THEN best
    ELSE LET d_sq == distance_sq(ball.center, players[i].center)
         IN  ClosestFrom(ball, players, i + 1, IF Closer(d_sq, best.min_distance_sq) THEN [closest_player |-> <<players[i]>>, min_distance_sq |-> d_sq] ELSE best)

\* Mutant: one player is enough.
EnoughTracksOnePlayer(players, balls) == balls # <<>> /\ Len(players) >= 1

\* not (not balls or len(players) < 2)
EnoughTracks(players, balls) == ~(balls = <<>> \/ Len(players) < 2)

\* Mutant: the threshold itself is too far.
WithinThresholdStrict(min_sq, transfer_threshold) == min_sq < transfer_threshold * transfer_threshold

\* min_distance <= transfer_threshold
WithinThreshold(min_sq, transfer_threshold) == min_sq <= transfer_threshold * transfer_threshold

\* ObjectTracker.detect_ball_transfer; the event carries the squared distance.
detect_ball_transfer(tracked_objects, transfer_threshold) ==
    LET players == OfClass(tracked_objects, 0)
        balls == OfClass(tracked_objects, 1)
    IN  IF ~EnoughTracks(players, balls) THEN <<>>
        ELSE LET ball == balls[1]
                 best == ClosestFrom(ball, players, 1, [closest_player |-> <<>>, min_distance_sq |-> Inf])
             IN  IF best.closest_player # <<>> /\ WithinThreshold(best.min_distance_sq, transfer_threshold)
                 THEN <<[frame_id |-> ball.frame_id, ball_id |-> ball.id, player_id |-> best.closest_player[1].id, distance_sq |-> best.min_distance_sq, ball_position |-> ball.center, player_position |-> best.closest_player[1].center]>>
                 ELSE <<>>

\* {obj.id: obj for obj in previous_objects}: a later object replaces an
\* earlier one of the same id.
RECURSIVE PrevMapFrom(_, _, _)
PrevMapFrom(previous_objects, i, prev_objects_map) ==
    IF i > Len(previous_objects) THEN prev_objects_map
    ELSE PrevMapFrom(previous_objects, i + 1, DictSet(prev_objects_map, previous_objects[i].id, previous_objects[i]))

\* Mutant: a track without a previous position gets velocity (0, 0).
calculate_velocity_zero_if_new(tracked_objects, previous_objects) ==
    LET prev_objects_map == PrevMapFrom(previous_objects, 1, EmptyDict)
    IN  [i \in 1..Len(tracked_objects) |->
            IF tracked_objects[i].id \in DOMAIN prev_objects_map
            THEN [tracked_objects[i] EXCEPT !.velocity = <<tracked_objects[i].center[1] - prev_objects_map[tracked_objects[i].id].center[1], tracked_objects[i].center[2] - prev_objects_map[tracked_objects[i].id].center[2]>>]
            ELSE [tracked_objects[i] EXCEPT !.velocity = <<0, 0>>]]

\* ObjectTracker.calculate_velocity: the list it returns, velocities set.
calculate_velocity(tracked_objects, previous_objects) ==
    LET prev_objects_map == PrevMapFrom(previous_objects, 1, EmptyDict)
    IN  [i \in 1..Len(tracked_objects) |->
            IF tracked_objects[i].id \in DOMAIN prev_objects_map
            THEN [tracked_objects[i] EXCEPT !.velocity = <<tracked_objects[i].center[1] - prev_objects_map[tracked_objects[i].id].center[1], tracked_objects[i].center[2] - prev_objects_map[tracked_objects[i].id].center[2]>>]
            ELSE tracked_objects[i]]

\* "if ball.velocity:" -- None is false, a pair of numbers is a non-empty
\* tuple and so true, whatever the numbers.
Truthy(velocity) == velocity # None /\ velocity # <<>>

\* Mutant: a magnitude equal to the threshold is a kick.
ExceedsOrEquals(velocity, velocity_threshold) == velocity[1] * velocity[1] + velocity[2] * velocity[2] >= velocity_threshold * velocity_threshold

\* velocity_magnitude > velocity_threshold, on the squares
Exceeds(velocity, velocity_threshold) == velocity[1] * velocity[1] + velocity[2] * velocity[2] > velocity_threshold * velocity_threshold

\* The loop over the balls of detect_ball_kick.
RECURSIVE KicksFrom(_, _, _, _)
KicksFrom(balls, i, velocity_threshold, kicks) ==
    IF i > Len(balls) THEN kicks
    ELSE KicksFrom(balls, i + 1, velocity_threshold, IF Truthy(balls[i].velocity) /\ Exceeds(balls[i].velocity, velocity_threshold) THEN Append(kicks, [frame_id |-> balls[i].frame_id, ball_id |-> balls[i].id, velocity |-> balls[i].velocity, magnitude_sq |-> balls[i].velocity[1] * balls[i].velocity[1] + balls[i].velocity[2] * balls[i].velocity[2], position |-> balls[i].center]) ELSE kicks)

\* BallTracker.detect_ball_kick
detect_ball_kick(tracked_objects, velocity_threshold) == KicksFrom(OfClass(tracked_objects, 1), 1, velocity_threshold, <<>>)

\* Where the tracks of a transfer query stand: on one spot, two spots at 50
\* pixels from it, and one spot just beyond 50.
Centers == {<<0, 0>>, <<30, 40>>, <<0, 50>>, <<31, 40>>}

\* transfer_threshold: the default and zero
TransferThresholds == {50, 0}

\* The velocities of a kick query: None, rest, magnitude 10, and faster.
VelocityList == <<None, <<0, 0>>, <<6, 8>>, <<-8, -7>>>>

\* velocity_threshold: the default and zero
KickThresholds == {10, 0}

\* Where the tracks of a velocity query stand.
VelCenterList == <<<<0, 0>>, <<6, 8>>, <<30, 40>>>>

\* The list update() returns for the tracks picked by pick (id -> 0 for no
\* such track, else the index of its center): ascending ids, no velocity.
TracksOf(pick) == LET ids == SelectSeq([i \in 1..(MaxNextId + 1) |-> i - 1], LAMBDA id : pick[id] # 0) IN [i \in 1..Len(ids) |-> ObjAt(ids[i], IF ids[i] = 0 THEN 1 ELSE 0, VelCenterList[pick[ids[i]]])]

EventQuery(query, tracked_objects, previous_objects, threshold) == [query |-> query, tracked_objects |-> tracked_objects, previous_objects |-> previous_objects, threshold |-> threshold]

DetectBallTransfer ==
    /\ call.op = "__init__"
    /\ args.query = "transfer"
    /\ result' = Returned(detect_ball_transfer(args.tracked_objects, args.threshold))
    /\ call' = NoCall("detect_ball_transfer")
    /\ UNCHANGED <<tracker_vars, args>>

CalculateVelocity ==
    /\ call.op = "__init__"
    /\ args.query = "velocity"
    /\ result' = Returned(calculate_velocity(args.tracked_objects, args.previous_objects))
    /\ call' = NoCall("calculate_velocity")
    /\ UNCHANGED <<tracker_vars, args>>

DetectBallKick ==
    /\ call.op = "__init__"
    /\ args.query = "kick"
    /\ result' = Returned(detect_ball_kick(args.tracked_objects, args.threshold))
    /\ call' = NoCall("detect_ball_kick")
    /\ UNCHANGED <<tracker_vars, args>>

\* ObjectTracker.filter_detections
filter_detections(detections, confidence_threshold) == SelectSeq(detections, LAMBDA det : det.confidence >= confidence_threshold)

\* The detections handed to the filter: a player (class 0), a ball (class 1)
\* or something else (class 2), with a confidence, in hundredths, just below
\* the default threshold, at it, or well above it.
FilterDetections == {[bbox |-> <<10, 10, 4, 8>>, class_id |-> c, confidence |-> k] : c \in {0, 1, 2}, k \in {49, 50, 90}}

\* confidence_threshold, in hundredths: the default 0.5
ConfidenceThresholds == {50}

FilterQuery(detections, confidence_threshold) == [query |-> "filter", detections |-> detections, confidence_threshold |-> confidence_threshold]

FilterDetectionsCall ==
    /\ call.op = "__init__"
    /\ args.query = "filter"
    /\ result' = Returned(filter_detections(args.detections, args.confidence_threshold))
    /\ call' = NoCall("filter_detections")
    /\ UNCHANGED <<tracker_vars, args>>

InitEvents ==
    /\ InitIdle
    /\ result = NoResult
    /\ \/ \E n \in 0..MaxDets : \E dets \in [1..n -> FilterDetections] : \E t \in ConfidenceThresholds :
            args = FilterQuery(dets, t)
       \/ \E n \in 0..MaxObjs : \E f \in [1..n -> {0, 1} \X Centers] : \E t \in TransferThresholds :
            args = EventQuery("transfer", [i \in 1..n |-> ObjAt(i - 1, f[i][1], f[i][2])], <<>>, t)
       \/ \E cur \in [0..MaxNextId -> 0..Len(VelCenterList)], prev \in [0..MaxNextId -> 0..Len(VelCenterList)] :
            args = EventQuery("velocity", TracksOf(cur), TracksOf(prev), 0)
       \/ \E n \in 0..MaxObjs : \E f \in [1..n -> {0, 1} \X (1..Len(VelocityList))] : \E t \in KickThresholds :
            args = EventQuery("kick", [i \in 1..n |-> [ObjAt(i - 1, f[i][1], <<0, 0>>) EXCEPT !.velocity = VelocityList[f[i][2]]]], <<>>, t)

NextEvents == DetectBallTransfer \/ CalculateVelocity \/ DetectBallKick \/ FilterDetectionsCall

SpecEvents == InitEvents /\ [][NextEvents]_vars

---------------------------------------------------------------------------
(* EventPipeline: the zone sequence of the current possession chain.  The    *)
(* pipeline is described by the specification of the system; the detectors   *)
(* and the zone mapper it calls are the ones modelled above.                 *)

\* transfer_threshold: float = 50.0
default_transfer_threshold == 50

\* Where the ball of a frame is: in zone 1, on the right edge of the pitch
\* (zone 6), in zone 13, and one pixel off the pitch.
FrameSpots == {<<100, 100>>, <<1920, 100>>, <<100, 720>>, <<1921, 100>>}

\* The tracks of a frame: the ball (id 0) and two players (ids 1, 2), of
\* which the one named by near stands 50 pixels from the ball and the other
\* 500 pixels; near = 0 puts both far away.
FrameTracks == {<<ObjAt(0, 1, b), ObjAt(1, 0, IF near = 1 THEN <<b[1] + 30, b[2] + 40>> ELSE <<b[1] + 300, b[2] + 400>>), ObjAt(2, 0, IF near = 2 THEN <<b[1] + 30, b[2] + 40>> ELSE <<b[1] + 300, b[2] + 400>>)>> : b \in FrameSpots, near \in 0..2}

\* What a frame leaves and emits: the active sequence and possessor after it,
\* the PossessionEvents of the frame, the sequence that was closed and
\* classified (if one was), and the FastBreakEvents.
FrameOutcome(seq, poss, possession, closed) == [zone_sequence |-> seq, possessor |-> poss, possession |-> possession, closed |-> closed, fast_break_events |-> SelectSeq(closed, LAMBDA c : c.fast_break)]

\* The closed sequence as handed to the classifier, with its classification.
Closed(seq) == [raw_sequence |-> seq, zone_sum |-> calculate_zone_sum(seq), pass_count |-> Len(seq), fast_break |-> detect_fast_break(seq)]

\* One frame of the pipeline after tracking: detect the transfer; if it names
\* a player other than the possessor, close and classify the active sequence
\* and start an empty one; else if the ball is off the pitch (zone 0), start
\* an empty one; else append the ball's zone.
process_frame(seq, poss, tracked_objects) ==
    LET possession == detect_ball_transfer(tracked_objects, default_transfer_threshold)
        ball == OfClass(tracked_objects, 1)[1]
        zone == pixel_to_zone(DefaultPitch, ball.center[1], ball.center[2])
    IN  IF possession # <<>> /\ poss # <<possession[1].player_id>>
        THEN FrameOutcome(<<>>, <<possession[1].player_id>>, possession, <<Closed(seq)>>)
        ELSE IF zone = 0
        THEN FrameOutcome(<<>>, poss, possession, <<>>)
        ELSE FrameOutcome(Append(seq, zone), poss, possession, <<>>)

ProcessFrame ==
    \E tracked_objects \in FrameTracks :
      \E out \in {process_frame(zone_sequence, possessor, tracked_objects)} :
        /\ Len(out.zone_sequence) <= MaxSeqLen
        /\ zone_sequence' = out.zone_sequence
        /\ possessor' = out.possessor
        /\ args' = [query |-> "frame", tracked_objects |-> tracked_objects]
        /\ result' = Returned([possession |-> out.possession, closed |-> out.closed, fast_break_events |-> out.fast_break_events])
        /\ call' = NoCall("process_frame")
        /\ UNCHANGED <<trackers, disappeared, next_id, ball_history, returned, assigned, assigned_since_reset, streak, frame, hist_calls, fast_break, recorded>>

InitPipeline ==
    /\ InitIdle
    /\ NoQuery

NextPipeline == ProcessFrame

SpecPipeline == InitPipeline /\ [][NextPipeline]_vars

---------------------------------------------------------------------------
(* Vocabulary of the properties *)

\* The ids a call created: those looped over that were not held before it.
Created == DOMAIN call'.updOK \ DOMAIN trackers

\* The ids of the TrackedObjects of a returned list.
ReturnedIds(objs) == {objs[i].id : i \in 1..Len(objs)}

\* The positions of the detections whose backend init succeeded, in order.
OkIdx(initOK) == SelectSeq([i \in 1..Len(initOK) |-> i], LAMBDA i : initOK[i])

UpdateStep == call'.op = "update"

---------------------------------------------------------------------------
(* C1..C8: ObjectTracker.update and reset *)

\* C1: update removes a held track exactly when its backend update failed
\* with the counter already at 30 (the 31st consecutive miss); the counter is
\* removed with it; no track whose counter after the call is 30 or less,
\* and no track created by the call, is removed.
C1_RemovedExactlyPastLimit ==
    [][UpdateStep =>
        /\ \A id \in DOMAIN trackers :
             (id \notin DOMAIN trackers') <=> (~call'.updOK[id] /\ disappeared[id] = 30)
        /\ \A id \in DOMAIN trackers \cap DOMAIN trackers' : disappeared'[id] <= 30
        /\ Created \subseteq DOMAIN trackers'
        /\ DOMAIN disappeared' = DOMAIN trackers']_vars

\* C1 witness: one update removed a track on its 31st miss while another
\* track, at exactly 30 misses, is still held.
C1_Witness ==
    /\ call.op = "update"
    /\ \E id \in DOMAIN call.updOK : id \notin DOMAIN trackers /\ streak[id] = 31
    /\ \E id \in DOMAIN trackers : disappeared[id] = 30

\* C2: across update, a track held before and after has counter 0 if its
\* backend update succeeded and its previous counter plus 1 otherwise (a
\* track created by the call starts from 0); a positive counter becomes 0
\* only in an update whose backend update on that track succeeded.
C2_CounterStep ==
    [][/\ UpdateStep =>
            /\ \A id \in DOMAIN trackers \cap DOMAIN trackers' :
                 disappeared'[id] = IF call'.updOK[id] THEN 0 ELSE disappeared[id] + 1
            /\ \A id \in Created \cap DOMAIN trackers' :
                 disappeared'[id] = IF call'.updOK[id] THEN 0 ELSE 1
       /\ \A id \in DOMAIN disappeared \cap DOMAIN disappeared' :
            (disappeared[id] > 0 /\ disappeared'[id] = 0) => (UpdateStep /\ call'.updOK[id])]_vars

\* C2 witness: in one update a track missed for the second time in a row
\* while another track, stale before the call, was matched again.
C2_Witness ==
    /\ call.op = "update"
    /\ \E id \in DOMAIN trackers : ~call.updOK[id] /\ disappeared[id] = 2
    /\ \E id \in call.recovered : disappeared[id] = 0

\* C3 as stated: once a track has been created, no update call increases
\* the number of held tracks.
C3_NeverGrowsAfterBootstrap ==
    [][(UpdateStep /\ next_id > 0) => Cardinality(DOMAIN trackers') <= Cardinality(DOMAIN trackers)]_vars

\* C3 amended: an update call that starts with a non-empty track table adds
\* no track (the held set can only shrink, and only by tracks whose 31st
\* miss it was); the number of held tracks grows only in an update that
\* starts with an empty table.
C3_NoGrowthWhileTracking ==
    [][UpdateStep =>
        /\ DOMAIN trackers # {} =>
             /\ DOMAIN trackers' \subseteq DOMAIN trackers
             /\ \A id \in DOMAIN trackers \ DOMAIN trackers' : streak'[id] = 31
        /\ Cardinality(DOMAIN trackers') > Cardinality(DOMAIN trackers) => DOMAIN trackers = {}]_vars

\* C3 witness: an update on a non-empty table, given detections, lost a
\* track to expiry and created none.
C3_Witness ==
    /\ call.op = "update"
    /\ ~call.boot
    /\ call.dets # <<>>
    /\ \E id \in DOMAIN call.updOK : id \notin DOMAIN trackers
    /\ next_id = Cardinality(assigned_since_reset)

\* C4: on a non-empty table the detections have no influence: whatever list
\* is passed, the table, the counters, next_id and the returned list are
\* those of the same call with no detections and the same backend update
\* outcomes; no track is created and no held track changes class or
\* confidence.
C4_DetectionsIgnoredWhileTracking ==
    [][(UpdateStep /\ DOMAIN trackers # {}) =>
        /\ \E r \in {update(Self, <<>>, <<>>, call'.updOK)} :
             /\ trackers' = r.trackers
             /\ disappeared' = r.disappeared
             /\ next_id' = r.next_id
             /\ returned' = r.tracked_objects
        /\ DOMAIN call'.updOK = DOMAIN trackers
        /\ \A id \in DOMAIN trackers' : trackers'[id] = trackers[id]]_vars

\* C4 witness: update was called with a full detection list while two tracks
\* were held, and both are still held.
C4_Witness ==
    /\ call.op = "update"
    /\ ~call.boot
    /\ Len(call.dets) = MaxDets
    /\ Cardinality(DOMAIN trackers) = 2
    /\ DOMAIN call.updOK = DOMAIN trackers

\* C5: an update on an empty table creates one track per detection whose
\* backend init succeeded and none for the others: the j-th success gets id
\* next_id + j - 1 with the class and confidence of its detection and
\* counter 0 when created (0 or 1 when the call returns, by the backend
\* update of the same call); next_id advances by the number of successes.
C5_BootstrapCreatesPerSuccessfulInit ==
    [][(UpdateStep /\ DOMAIN trackers = {}) =>
        LET d == call'.dets
            ok == OkIdx(call'.initOK)
            s1 == Bootstrap(Self, d, call'.initOK)
        IN  /\ Len(call'.initOK) = Len(d)
            /\ next_id' = next_id + Len(ok)
            /\ DOMAIN trackers' = {next_id + j - 1 : j \in 1..Len(ok)}
            /\ Cardinality(DOMAIN trackers') = Len(ok)
            /\ \A j \in 1..Len(ok) :
                 /\ trackers'[next_id + j - 1] = [class_id |-> d[ok[j]].class_id, confidence |-> d[ok[j]].confidence]
                 /\ s1.disappeared[next_id + j - 1] = 0
                 /\ disappeared'[next_id + j - 1] = IF call'.updOK[next_id + j - 1] THEN 0 ELSE 1]_vars

\* C5 witness: a frame of two detections of different classes whose first
\* init failed and second succeeded left exactly one track, of the second
\* detection's class, and the failed one consumed no id.
C5_Witness ==
    /\ call.op = "update"
    /\ call.boot
    /\ call.initOK = <<FALSE, TRUE>>
    /\ call.dets[1].class_id # call.dets[2].class_id
    /\ DOMAIN trackers = {0}
    /\ trackers[0].class_id = call.dets[2].class_id
    /\ next_id = 1

\* C6 as stated: no update ever gives a new track an id that the instance
\* has given to a track before, resets included.
C6_NeverReassigned ==
    [][UpdateStep => Created \cap assigned = {}]_vars

\* C6 amended: between two resets (and from construction to the first) every
\* created track gets an id of its own, larger than every id given since the
\* last reset, also when the earlier tracks have all expired; next_id does
\* not decrease in update.
C6_UniqueIncreasingBetweenResets ==
    [][UpdateStep =>
        /\ Created \cap assigned_since_reset = {}
        /\ \A id \in Created : \A old \in assigned_since_reset : id > old
        /\ Cardinality(Created) = Len(OkIdx(call'.initOK))
        /\ next_id' >= next_id
        /\ \A id \in Created : id < next_id']_vars

\* C6 witness: a track was created after every earlier track of this epoch
\* had expired, and got a larger id.
C6_Witness ==
    /\ call.op = "update"
    /\ call.boot
    /\ DOMAIN trackers # {}
    /\ \E old \in assigned_since_reset : old \notin DOMAIN call.updOK /\ \A id \in DOMAIN trackers : id > old

\* C8: a failed backend update is a miss: the call returns, the track is
\* only absent from the returned list; a stale track (1..30 misses) whose
\* backend update succeeds is held with counter 0 and returned; and the
\* counter of a held track is its number of backend failures in a row, a
\* track being removed exactly when that number reaches 31.
C8_MissIsRecoverable ==
    [][/\ UpdateStep =>
            \A id \in DOMAIN trackers :
              /\ (call'.updOK[id] /\ disappeared[id] \in 1..30) =>
                   (id \in DOMAIN trackers' /\ disappeared'[id] = 0 /\ id \in ReturnedIds(returned'))
              /\ ~call'.updOK[id] => id \notin ReturnedIds(returned')
       /\ \A id \in DOMAIN streak' :
            IF id \in DOMAIN trackers' THEN disappeared'[id] = streak'[id] /\ streak'[id] <= 30
            ELSE streak'[id] = 31]_vars

\* C8 witness: a track that was stale before the last update was matched by
\* it: it is held with counter 0 and is in the returned list.
C8_Witness ==
    /\ call.op = "update"
    /\ \E id \in call.recovered : id \in DOMAIN trackers /\ disappeared[id] = 0 /\ id \in ReturnedIds(returned)

---------------------------------------------------------------------------
(* C7: reset on a BallTracker *)

\* C7: after reset() the instance is in the state of a freshly constructed
\* one: empty track table, empty counters, next_id 0 and, for a BallTracker,
\* an empty ball history.
C7_ResetClearsAllState ==
    call.op = "reset" => (trackers = EmptyDict /\ disappeared = EmptyDict /\ next_id = 0 /\ ball_history = <<>>)

---------------------------------------------------------------------------
(* C9, C10: detect_fast_break *)

Classified == call.op = "detect_fast_break"

C10_FourZonesNeedSumAbove12 ==
    (Classified /\ Len(zone_sequence) = 4) =>
        /\ fast_break = (calculate_zone_sum(zone_sequence) > 12)
        /\ zone_sequence = <<1, 2, 3, 6>> => fast_break = FALSE
        /\ zone_sequence = <<1, 2, 3, 7>> => fast_break = TRUE

---------------------------------------------------------------------------
(* C11..C15: PitchZoneMapper geometry *)

\* The rule of pixel_to_zone: 0 outside the closed rectangle
\* [0, width] x [0, height]; inside, row * 6 + col + 1 with
\* col = min(floor(x / zone_width), 5) and row = min(floor(y / zone_height), 2),
\* a value in 1..18; x = width lies in the last column, y = height in the
\* last row.
PixelToZoneRule ==
    call.op = "pixel_to_zone" =>
        LET w == args.pitch.pitch_width
            h == args.pitch.pitch_height
            x == args.x
            y == args.y
            z == result.value
            inside == 0 <= x /\ x <= w /\ 0 <= y /\ y <= h
            fx == x \div (w \div 6)
            fy == y \div (h \div 3)
            col == IF fx <= 5 THEN fx ELSE 5
            row == IF fy <= 2 THEN fy ELSE 2
        IN  /\ result.raised = None
            /\ ~inside => z = 0
            /\ inside => z = row * 6 + col + 1 /\ z \in 1..18
            /\ inside /\ x = w => (z - 1) % 6 = 5
            /\ inside /\ y = h => (z - 1) \div 6 = 2

\* The zone pixel_to_zone returned for the point (x, y) of the default pitch.
DefaultPitchMaps(x, y, z) == (call.op = "pixel_to_zone" /\ args.pitch = DefaultPitch /\ args.x = x /\ args.y = y) => result = Returned(z)

\* C11 as stated: pixel_to_zone follows the rule above, and on the default
\* 1920 x 1080 pitch (100,100) -> 1, (1900,100) -> 6, (100,700) -> 13.
C11_PixelToZoneAsStated ==
    /\ PixelToZoneRule
    /\ DefaultPitchMaps(100, 100, 1)
    /\ DefaultPitchMaps(1900, 100, 6)
    /\ DefaultPitchMaps(100, 700, 13)

\* C11: pixel_to_zone returns 0 for every point outside the closed rectangle
\* [0, width] x [0, height]; for every point inside it returns
\* row * 6 + col + 1 with col = min(floor(x / zone_width), 5) and
\* row = min(floor(y / zone_height), 2), a value in 1..18; a point with
\* x = width lies in the last column and one with y = height in the last row;
\* on the default pitch (100,100) -> 1, (1900,100) -> 6, (100,700) -> 7 (the
\* second row: floor(700 / 360) = 1) and (100,720) -> 13.
C11_PixelToZone ==
    /\ PixelToZoneRule
    /\ DefaultPitchMaps(100, 100, 1)
    /\ DefaultPitchMaps(1900, 100, 6)
    /\ DefaultPitchMaps(100, 700, 7)
    /\ DefaultPitchMaps(100, 720, 13)

\* (100, 700) of the default pitch was mapped, to zone 7.
C11_Witness ==
    /\ call.op = "pixel_to_zone"
    /\ args.pitch = DefaultPitch
    /\ args.x = 100
    /\ args.y = 700
    /\ result = Returned(7)

\* C12: when pixel_to_zone(x, y) is a zone z # 0, the rectangle
\* (x1, y1, x2, y2) that get_zone_boundaries(z) returns contains the point:
\* x1 <= x <= x2 and y1 <= y <= y2, also for points of the right and bottom
\* pitch edges.
C12_BoundsContainPoint ==
    (call.op = "get_zone_boundaries" /\ args.query = "point" /\ args.zone_number # 0) =>
        /\ args.zone_number = pixel_to_zone(args.pitch, args.x, args.y)
        /\ result.raised = None
        /\ result.value[1] <= args.x
        /\ args.x <= result.value[3]
        /\ result.value[2] <= args.y
        /\ args.y <= result.value[4]

\* The bounds of the zone of a point with x = width and y = height, on a
\* small pitch.
C12_Witness ==
    /\ call.op = "get_zone_boundaries"
    /\ args.query = "point"
    /\ args.pitch # DefaultPitch
    /\ args.x = args.pitch.pitch_width
    /\ args.y = args.pitch.pitch_height
    /\ args.zone_number = 18
    /\ result.raised = None

\* C13: zone_to_pixel_center(z) and get_zone_boundaries(z) raise the
\* invalid-zone error for every z outside 1..18, the outside-pitch result 0
\* included, and for every z in 1..18 return the centre and the bounds of the
\* cell in column (z - 1) mod 6 and row (z - 1) div 6.
C13_InvalidZoneRaises ==
    call.op \in {"zone_to_pixel_center", "get_zone_boundaries"} =>
        LET z == args.zone_number
            zw == args.pitch.pitch_width \div 6
            zh == args.pitch.pitch_height \div 3
            col == (z - 1) % 6
            row == (z - 1) \div 6
        IN  /\ z \notin 1..18 => result = Raised("ValueError")
            /\ (z \in 1..18 /\ call.op = "get_zone_boundaries") => result = Returned(<<col * zw, row * zh, col * zw + zw, row * zh + zh>>)
            /\ (z \in 1..18 /\ call.op = "zone_to_pixel_center") => result = Returned(<<col * zw + zw \div 2, row * zh + zh \div 2>>)

\* get_zone_boundaries raised on the 0 that pixel_to_zone returned for a point
\* outside the pitch.
C13_Witness ==
    /\ call.op = "get_zone_boundaries"
    /\ args.query = "point"
    /\ args.zone_number = 0
    /\ result = Raised("ValueError")

\* C14: is_forward_pass called with a zone id outside 1..18 ends in a failure
\* raised to the caller, not in an ordinary return value.
C14_InvalidZoneIsFailure ==
    (call.op = "is_forward_pass" /\ (args.zone1 \notin 1..18 \/ args.zone2 \notin 1..18)) => result.raised # None

---------------------------------------------------------------------------
(* C16..C19: possession transfers, velocities and kicks *)

\* The positions of the tracks of class c in the list of the query.
IdxOfClass(c) == {i \in 1..Len(args.tracked_objects) : args.tracked_objects[i].class_id = c}

\* The first ball of the list of the query.
FirstBall == args.tracked_objects[CHOOSE i \in IdxOfClass(1) : \A j \in IdxOfClass(1) : i <= j]

\* The squared distance from the first ball to the track at position i.
BallDistSq(i) == distance_sq(FirstBall.center, args.tracked_objects[i].center)

\* C16: detect_ball_transfer returns no event when the list holds no ball
\* track or fewer than two player tracks, whatever the distances and the
\* threshold.
C16_NoEventWithoutBallAndTwoPlayers ==
    (call.op = "detect_ball_transfer" /\ (IdxOfClass(1) = {} \/ Cardinality(IdxOfClass(0)) < 2)) => result = Returned(<<>>)

\* One player standing exactly on the ball, threshold 50: no event.
C16_Witness ==
    /\ call.op = "detect_ball_transfer"
    /\ args.threshold = 50
    /\ args.tracked_objects = <<ObjAt(0, 1, <<0, 0>>), ObjAt(1, 0, <<0, 0>>)>>
    /\ result = Returned(<<>>)

\* C17: with at least one ball and at least two players, detect_ball_transfer
\* returns exactly one event iff the least distance from the first ball of the
\* list to a player is <= transfer_threshold, and nothing otherwise; the event
\* names the first ball and the earliest player of the list at that least
\* distance; later balls have no effect.
C17_EventIffClosestWithinThreshold ==
    (call.op = "detect_ball_transfer" /\ IdxOfClass(1) # {} /\ Cardinality(IdxOfClass(0)) >= 2) =>
        LET nearest == {i \in IdxOfClass(0) : \A j \in IdxOfClass(0) : BallDistSq(i) <= BallDistSq(j)}
            first == CHOOSE i \in nearest : \A j \in nearest : i <= j
            within == BallDistSq(first) <= args.threshold * args.threshold
        IN  /\ result.raised = None
            /\ Len(result.value) = (IF within THEN 1 ELSE 0)
            /\ within => /\ result.value[1].ball_id = FirstBall.id
                         /\ result.value[1].ball_position = FirstBall.center
                         /\ result.value[1].player_id = args.tracked_objects[first].id
                         /\ result.value[1].player_position = args.tracked_objects[first].center
                         /\ result.value[1].distance_sq = BallDistSq(first)

\* Two players at exactly 50 pixels from the first ball, threshold 50, and a
\* second ball lying on the later player: the event names the first ball and
\* the earlier player.
C17_Witness ==
    /\ call.op = "detect_ball_transfer"
    /\ args.threshold = 50
    /\ args.tracked_objects = <<ObjAt(0, 0, <<0, 50>>), ObjAt(1, 1, <<0, 0>>), ObjAt(2, 0, <<30, 40>>), ObjAt(3, 1, <<30, 40>>)>>
    /\ Len(result.value) = 1
    /\ result.value[1].ball_id = 1
    /\ result.value[1].player_id = 0

\* Whether the velocity of a track is defined and equal to v.
HasVelocity(obj, v) == obj.velocity # None /\ obj.velocity = v

\* C18: calculate_velocity returns the current tracks, each with velocity
\* (cx - px, cy - py) when a previous track has its id, (px, py) being that
\* previous track's center, and with velocity None when no previous track has
\* its id.
C18_VelocityIsDeltaOrNone ==
    call.op = "calculate_velocity" =>
        /\ result.raised = None
        /\ Len(result.value) = Len(args.tracked_objects)
        /\ \A i \in 1..Len(args.tracked_objects) :
             LET cur == args.tracked_objects[i]
                 same == {j \in 1..Len(args.previous_objects) : args.previous_objects[j].id = cur.id}
             IN  /\ result.value[i].id = cur.id
                 /\ result.value[i].center = cur.center
                 /\ same = {} => result.value[i].velocity = None
                 /\ \A j \in same : HasVelocity(result.value[i], <<cur.center[1] - args.previous_objects[j].center[1], cur.center[2] - args.previous_objects[j].center[2]>>)

\* One track moved by (6, 8) since the previous frame and one track is new.
C18_Witness ==
    /\ call.op = "calculate_velocity"
    /\ Len(result.value) = 2
    /\ Len(args.previous_objects) = 1
    /\ HasVelocity(result.value[1], <<6, 8>>)
    /\ result.value[2].velocity = None

\* Whether a track of the kick query is a ball moving faster than the
\* threshold.
IsKick(obj) == obj.class_id = 1 /\ obj.velocity # None /\ obj.velocity[1] * obj.velocity[1] + obj.velocity[2] * obj.velocity[2] > args.threshold * args.threshold

\* C19: detect_ball_kick returns one event for each ball whose velocity is
\* defined and whose magnitude is strictly above the threshold, in list
\* order, and none for any other track; with the default threshold 10 a ball
\* of velocity (6, 8), a ball of velocity (0, 0), a ball without velocity and
\* every player give no event.
C19_KickIffFasterThanThreshold ==
    call.op = "detect_ball_kick" =>
        LET kicked == SelectSeq(args.tracked_objects, IsKick)
        IN  /\ result.raised = None
            /\ Len(result.value) = Len(kicked)
            /\ \A i \in 1..Len(kicked) : result.value[i].ball_id = kicked[i].id /\ HasVelocity(result.value[i], kicked[i].velocity)
            /\ args.threshold = 10 =>
                 \A i \in 1..Len(args.tracked_objects) :
                    LET obj == args.tracked_objects[i]
                    IN  (obj.class_id = 0 \/ obj.velocity = None \/ HasVelocity(obj, <<6, 8>>) \/ HasVelocity(obj, <<0, 0>>)) => \A k \in 1..Len(result.value) : result.value[k].ball_id # obj.id

\* Threshold 10: a ball at magnitude 10, a fast player, a ball without
\* velocity and a fast ball give the one event of the fast ball.
C19_Witness ==
    /\ call.op = "detect_ball_kick"
    /\ args.threshold = 10
    /\ Len(args.tracked_objects) = 4
    /\ args.tracked_objects[1].class_id = 1 /\ HasVelocity(args.tracked_objects[1], <<6, 8>>)
    /\ args.tracked_objects[2].class_id = 0 /\ HasVelocity(args.tracked_objects[2], <<-8, -7>>)
    /\ args.tracked_objects[3].class_id = 1 /\ args.tracked_objects[3].velocity = None
    /\ args.tracked_objects[4].class_id = 1 /\ HasVelocity(args.tracked_objects[4], <<-8, -7>>)
    /\ Len(result.value) = 1
    /\ result.value[1].ball_id = 3

---------------------------------------------------------------------------
(* C20: the ball history *)

\* The last n elements of a sequence.
LastN(seq, n) == SubSeq(seq, Len(seq) - n + 1, Len(seq))

\* C20: after every update_ball_history call the history holds at most 30
\* samples and equals the last min(k, 30) samples recorded, in recording
\* order, k being the number of calls made with a non-empty ball list; a
\* sample added to a history of 30 evicts exactly the oldest one; a call with
\* an empty ball list leaves the history as it was.
C20_HistoryIsFifoWindow ==
    [][call'.op = "update_ball_history" =>
        /\ Len(ball_history') <= 30
        /\ ball_history' = LastN(recorded', IF Len(recorded') < 30 THEN Len(recorded') ELSE 30)
        /\ call'.dets = <<>> => (ball_history' = ball_history /\ recorded' = recorded)
        /\ call'.dets # <<>> => Len(recorded') = Len(recorded) + 1
        /\ (call'.dets # <<>> /\ Len(ball_history) = 30) => ball_history' = Append(Tail(ball_history), recorded'[Len(recorded')])]_vars

\* A full history of 30 samples took two more samples, and one call without a
\* ball in between: it holds samples 3..32.
C20_Witness ==
    /\ call.op = "update_ball_history"
    /\ frame = 33
    /\ Len(recorded) = 32
    /\ Len(ball_history) = 30
    /\ ball_history[1] = recorded[3]
    /\ ball_history[30] = recorded[32]

---------------------------------------------------------------------------
(* C21: ball position prediction *)

\* The position of the i-th most recent sample of the history.
RecentPos(i) == ball_history[Len(ball_history) - i + 1].position

\* Whether the fraction <<numerator, denominator>> equals half of twice.
IsHalfOf(fraction, twice) == fraction[2] > 0 /\ 2 * fraction[1] = fraction[2] * twice

\* C21: predict_ball_position(frames_ahead) returns None when the history
\* holds fewer than 3 samples; otherwise, with p1, p2, p3 the three most
\* recent positions, it returns
\* p3 + frames_ahead * ((p2 - p1) + (p3 - p2)) / 2 in each coordinate; the
\* history is left as it was.
C21_PredictionIsLinear ==
    [][call'.op = "predict_ball_position" =>
        /\ ball_history' = ball_history
        /\ result'.raised = None
        /\ Len(ball_history) < 3 => result'.value = None
        /\ Len(ball_history) >= 3 =>
             /\ result'.value # None
             /\ \A k \in 1..2 : IsHalfOf(result'.value[k], 2 * RecentPos(1)[k] + args'.frames_ahead * ((RecentPos(2)[k] - RecentPos(3)[k]) + (RecentPos(1)[k] - RecentPos(2)[k])))]_vars

\* Five frames ahead of a ball that moved by (6, 8) and then rested at
\* (7, 9): (7 + 5 * 3, 9 + 5 * 4) = (22, 29).
C21_Witness ==
    /\ call.op = "predict_ball_position"
    /\ args.frames_ahead = 5
    /\ Len(ball_history) >= 3
    /\ RecentPos(3) = <<1, 1>>
    /\ RecentPos(2) = <<7, 9>>
    /\ RecentPos(1) = <<7, 9>>
    /\ result.value # None
    /\ result.value = <<<<44, 2>>, <<58, 2>>>>

---------------------------------------------------------------------------
(* C22: the detection filter *)

\* C22: filter_detections returns exactly the detections whose confidence is
\* not below the threshold and whose class is a tracked one (player 0 or
\* ball 1), in their order: a detection below the threshold or of another
\* class is dropped.
C22_FilterDropsLowConfidenceAndOtherClasses ==
    call.op = "filter_detections" =>
        result = Returned(SelectSeq(args.detections, LAMBDA det : det.confidence >= args.confidence_threshold /\ det.class_id \in {0, 1}))

---------------------------------------------------------------------------
(* C23, C24: the zone sequence of the pipeline *)

FrameStep == call'.op = "process_frame"

\* The center of the ball of the frame just processed.
FrameBall == args'.tracked_objects[1].center

\* The frame's PossessionEvent names a player other than the possessor.
PossessionFlips == result'.value.possession # <<>> /\ possessor # <<result'.value.possession[1].player_id>>

\* The ball of the frame is off the 1920 x 1080 pitch.
BallOffPitch == ~(0 <= FrameBall[1] /\ FrameBall[1] <= 1920 /\ 0 <= FrameBall[2] /\ FrameBall[2] <= 1080)

\* The zone of a ball on the 1920 x 1080 pitch.
FrameBallZone == (IF FrameBall[2] >= 720 THEN 2 ELSE FrameBall[2] \div 360) * 6 + (IF FrameBall[1] >= 1600 THEN 5 ELSE FrameBall[1] \div 320) + 1

\* C23: a frame whose possession event names a player other than the current
\* possessor hands the active sequence to the classifier, emits a
\* FastBreakEvent iff it classifies true, and leaves the active sequence
\* empty; a frame whose ball is off the pitch leaves it empty; any other frame
\* appends the ball's zone to it.
C23_SequenceResetOrAppended ==
    [][FrameStep =>
        /\ PossessionFlips =>
             /\ zone_sequence' = <<>>
             /\ possessor' = <<result'.value.possession[1].player_id>>
             /\ Len(result'.value.closed) = 1
             /\ result'.value.closed[1].raw_sequence = zone_sequence
             /\ result'.value.closed[1].fast_break = detect_fast_break(zone_sequence)
             /\ Len(result'.value.fast_break_events) = (IF detect_fast_break(zone_sequence) THEN 1 ELSE 0)
        /\ ~PossessionFlips =>
             /\ possessor' = possessor
             /\ result'.value.closed = <<>>
             /\ result'.value.fast_break_events = <<>>
        /\ (~PossessionFlips /\ BallOffPitch) => zone_sequence' = <<>>
        /\ (~PossessionFlips /\ ~BallOffPitch) => zone_sequence' = Append(zone_sequence, FrameBallZone)]_vars

\* Possession went to another player after the ball had crossed zones 1, 6
\* and 13: the chain was closed and a FastBreakEvent emitted.
C23_Witness ==
    /\ call.op = "process_frame"
    /\ zone_sequence = <<>>
    /\ Len(result.value.fast_break_events) = 1
    /\ result.value.fast_break_events[1].raw_sequence = <<1, 6, 13>>
    /\ result.value.possession # <<>>
    /\ possessor = <<result.value.possession[1].player_id>>

\* C24: the active sequence, every sequence handed to the classifier and the
\* sequence of every FastBreakEvent hold only zone ids in 1..18, never the
\* off-pitch result 0, and the zone sum of every classified sequence and of
\* every FastBreakEvent is at least its pass count.
C24_OnlyPitchZonesInSequences ==
    /\ \A i \in 1..Len(zone_sequence) : zone_sequence[i] \in 1..18
    /\ call.op = "process_frame" =>
         /\ \A c \in 1..Len(result.value.closed) :
              /\ \A i \in 1..Len(result.value.closed[c].raw_sequence) : result.value.closed[c].raw_sequence[i] \in 1..18
              /\ result.value.closed[c].pass_count = Len(result.value.closed[c].raw_sequence)
              /\ result.value.closed[c].zone_sum >= result.value.closed[c].pass_count
         /\ \A e \in 1..Len(result.value.fast_break_events) :
              /\ \A i \in 1..Len(result.value.fast_break_events[e].raw_sequence) : result.value.fast_break_events[e].raw_sequence[i] \in 1..18
              /\ result.value.fast_break_events[e].zone_sum >= result.value.fast_break_events[e].pass_count

\* A chain of two frames in zone 1 was closed: sum 2, two passes, no
\* fast-break.
C24_Witness ==
    /\ call.op = "process_frame"
    /\ Len(result.value.closed) = 1
    /\ result.value.closed[1].raw_sequence = <<1, 1>>
    /\ result.value.closed[1].zone_sum = 2
    /\ result.value.fast_break_events = <<>>

---------------------------------------------------------------------------
(* C25: the second rule of detect_fast_break *)

---------------------------------------------------------------------------
(* C26, C27: what update returns, and the tables between calls *)

\* C26: update returns exactly the tracks whose backend update succeeded in
\* this call, those created in it included, once each and in ascending id
\* order, each held with miss counter 0; a track held with a miss counter of
\* 1 or more is not in the returned list.
C26_ReturnsTracksSeenThisFrame ==
    [][UpdateStep =>
        /\ ReturnedIds(returned') = {id \in DOMAIN call'.updOK : call'.updOK[id]}
        /\ \A i \in 1..Len(returned'), j \in 1..Len(returned') : i < j => returned'[i].id < returned'[j].id
        /\ \A i \in 1..Len(returned') : returned'[i].id \in DOMAIN trackers' /\ disappeared'[returned'[i].id] = 0
        /\ \A id \in Created : call'.updOK[id] => id \in ReturnedIds(returned')
        /\ \A id \in DOMAIN trackers' : disappeared'[id] >= 1 => id \notin ReturnedIds(returned')]_vars

\* Two tracks are held, one of them missed for 2 frames in a row; the last
\* update returned only the other one.
C26_Witness ==
    /\ call.op = "update"
    /\ DOMAIN trackers = {0, 1}
    /\ disappeared[0] = 2
    /\ disappeared[1] = 0
    /\ ReturnedIds(returned) = {1}

\* The two tables hold the same ids, all in 0..next_id - 1, and every miss
\* counter is in 0..max_disappeared.
TablesAgree ==
    /\ DOMAIN trackers = DOMAIN disappeared
    /\ \A id \in DOMAIN trackers : 0 <= id /\ id < next_id
    /\ \A id \in DOMAIN disappeared : 0 <= disappeared[id] /\ disappeared[id] <= 30

\* C27: after every update or reset call the track table and the miss-counter
\* table have the same ids, every held id is >= 0 and < next_id, every miss
\* counter is in 0..30 (31 is never left in the table), and next_id does not
\* decrease except in reset.
C27_TablesAgreeAndNextIdGrows ==
    [][/\ TablesAgree'
       /\ call'.op = "update" => next_id' >= next_id
       /\ call'.op = "reset" => next_id' = 0]_vars

\* A track is held with its miss counter at the limit, 30.
C27_Witness ==
    /\ call.op = "update"
    /\ \E id \in DOMAIN trackers : disappeared[id] = max_disappeared
    /\ TablesAgree

===========================================================================
